---------------------------- MODULE Spec2Model ----------------------------
(***************************************************************************)
(* WikiHelper: reference extraction/restoration (wikiops/refs.py),         *)
(* workspace storage (wikiops/storage.py) and the session and routes of    *)
(* the web application (main_app).                                         *)
(*                                                                         *)
(* Text is a sequence of lexical atoms.  Each atom stands for a fixed      *)
(* piece of the character stream:                                          *)
(*   "x"       any character that takes part in no tag and no placeholder  *)
(*   "<ref>"   an opening citation tag (with any attributes)               *)
(*   "</ref>"  a closing citation tag                                      *)
(*   "<ref/>"  a self-closing citation tag                                 *)
(*   "[ref"    the four characters that open a placeholder                 *)
(*   "0".."9"  a decimal digit                                             *)
(*   "]"       a closing bracket                                           *)
(* A reference-map key "refN" is represented by the digit sequence of N.   *)
(***************************************************************************)
EXTENDS Integers, Sequences, FiniteSets, TLC

VARIABLES
    text,        \* refs.py: the argument of extract_refs_from_text
    tags,        \* refs.py: the <ref> spans as get_tags() reported them
    modified,    \* refs.py: extract's first result / restore's text argument
    refs_map,    \* refs.py: extract's second result / restore's map argument
    restored,    \* refs.py: the result of restore_refs_in_text
    rpc,         \* position of the extract/restore pipeline
    dirs,        \* storage.py: the directories that exist under the root
    files,       \* storage.py: the five artifacts of every workspace directory
    clock,       \* the value datetime.utcnow() returns
    last,        \* the last storage operation: its arguments and its outcome
                 \* (for concurrent calls: per file, the call that renamed last)
    links,       \* the symbolic links directly below the root and their targets
    touched,     \* per directory, the time of its last completed create/update
    proc,        \* the concurrent update_workspace calls: position and locals
    tmp,         \* the temporary file each atomic_write in progress holds
    session,     \* main_app: session["username"] of the browser session
    owner        \* per directory, the session username whose request created it

refsVars == <<text, tags, modified, refs_map, restored, rpc>>

writerVars == <<proc, tmp>>

webVars == <<session, owner>>

storageVars == <<dirs, files, clock, last, links, touched, proc, tmp, session, owner>>

\* the variables the storage handlers leave alone
frameVars == <<text, tags, modified, refs_map, restored, rpc, links, proc, tmp,
               session, owner>>

vars == <<text, tags, modified, refs_map, restored, rpc, dirs, files, clock, last,
          links, touched, proc, tmp, session, owner>>

(***************************************************************************)
(* Bounds                                                                  *)
(***************************************************************************)
MaxDocLen == 5

MaxTextLen == 6

MaxClock == 1

(***************************************************************************)
(* Generic helpers                                                         *)
(***************************************************************************)
SeqsUpTo(S, n) == UNION {[1..k -> S] : k \in 0..n}

Digits == {"0", "1", "2", "3", "4", "5", "6", "7", "8", "9"}

DigitOf(d) == CASE d = 0 -> "0" [] d = 1 -> "1" [] d = 2 -> "2" [] d = 3 -> "3"
                [] d = 4 -> "4" [] d = 5 -> "5" [] d = 6 -> "6" [] d = 7 -> "7"
                [] d = 8 -> "8" [] d = 9 -> "9"

RECURSIVE IntToStr(_)
\* str(i) for i >= 0, as the f-string f"ref{i}" formats it
IntToStr(i) == IF i < 10 THEN <<DigitOf(i)>>
               ELSE IntToStr(i \div 10) \o <<DigitOf(i % 10)>>

NoText == <<"?">>

NoMap == <<>>

(***************************************************************************)
(* refs.py: the tag scanner (wikitextparser parse + get_tags, filtered to  *)
(* the tag name "ref")                                                     *)
(***************************************************************************)
\* index of the first "</ref>" after position i, 0 when there is none
FindClose(t, i) ==
    LET js == {j \in (i+1)..Len(t) : t[j] = "</ref>"}
    IN  IF js = {} THEN 0 ELSE CHOOSE j \in js : \A k \in js : j <= k

RECURSIVE ScanFromStartOnly(_, _)
\* a scanner that reports an opening tag without a closing tag as a tag
ScanFromStartOnly(t, i) ==
    IF i > Len(t) THEN <<>>
    ELSE IF t[i] = "<ref/>" THEN <<<<i - 1, i>>>> \o ScanFromStartOnly(t, i + 1)
    ELSE IF t[i] = "<ref>" /\ FindClose(t, i) # 0
         THEN <<<<i - 1, FindClose(t, i)>>>> \o ScanFromStartOnly(t, FindClose(t, i) + 1)
    ELSE IF t[i] = "<ref>" THEN <<<<i - 1, i>>>> \o ScanFromStartOnly(t, i + 1)
    ELSE ScanFromStartOnly(t, i + 1)

RECURSIVE ScanFrom(_, _)
\* the spans <<start, end>> (0-based, end exclusive) of the citation tags
\* from 1-based position i on, in document order; an opening tag without a
\* closing tag is not a tag occurrence
ScanFrom(t, i) ==
    IF i > Len(t) THEN <<>>
    ELSE IF t[i] = "<ref/>" THEN <<<<i - 1, i>>>> \o ScanFrom(t, i + 1)
    ELSE IF t[i] = "<ref>" /\ FindClose(t, i) # 0
         THEN <<<<i - 1, FindClose(t, i)>>>> \o ScanFrom(t, FindClose(t, i) + 1)
    ELSE ScanFrom(t, i + 1)

ScanTags(t) == ScanFrom(t, 1)

\* every order in which get_tags() may report the spans
ReportOrders(spans) ==
    LET n == Len(spans)
        perms == {p \in [1..n -> 1..n] : \A i, j \in 1..n : p[i] = p[j] => i = j}
    IN  {[i \in 1..n |-> spans[p[i]]] : p \in perms}

(***************************************************************************)
(* refs.py: extract_refs_from_text                                         *)
(***************************************************************************)
RECURSIVE InsertByStart(_, _)
InsertByStart(sorted, tag) ==
    IF sorted = <<>> THEN <<tag>>
    ELSE IF tag[1] < Head(sorted)[1] THEN <<tag>> \o sorted
    ELSE <<Head(sorted)>> \o InsertByStart(Tail(sorted), tag)

\* the tag list left in the order the scanner reported it
SortByStartOmitted(ts) == ts

RECURSIVE SortByStart(_)
\* tags.sort(key=lambda t: t.span[0]): stable, ascending by start offset
SortByStart(ts) ==
    IF ts = <<>> THEN <<>>
    ELSE InsertByStart(SortByStart(SubSeq(ts, 1, Len(ts) - 1)), ts[Len(ts)])

\* f"[{key}]" for key = f"ref{i}"
Placeholder(i) == <<"[ref">> \o IntToStr(i) \o <<"]">>

\* text[start:end]
Slice(t, start, end) == SubSeq(t, start + 1, end)

RECURSIVE ApplyForward(_, _, _)
\* the replacements applied from the lowest start offset to the highest,
\* each at the offsets it had in the document
ApplyForward(m, sorted, n) ==
    IF n = 0 THEN m
    ELSE LET i == Len(sorted) - n + 1
             start == IF sorted[i][1] < Len(m) THEN sorted[i][1] ELSE Len(m)
             end == IF sorted[i][2] < Len(m) THEN sorted[i][2] ELSE Len(m)
         IN  ApplyForward(Slice(m, 0, start) \o Placeholder(i) \o Slice(m, end, Len(m)),
                          sorted, n - 1)

RECURSIVE ApplyReversed(_, _, _)
\* for start, end, placeholder in reversed(replacements):
\*     modified = modified[:start] + placeholder + modified[end:]
ApplyReversed(m, sorted, n) ==
    IF n = 0 THEN m
    ELSE ApplyReversed(Slice(m, 0, sorted[n][1]) \o Placeholder(n)
                           \o Slice(m, sorted[n][2], Len(m)),
                       sorted, n - 1)

\* refs_map[f"ref{i}"] = text[start:end] for the i-th tag of the sorted list
BuildRefsMap(t, sorted) ==
    [k \in {IntToStr(i) : i \in 1..Len(sorted)} |->
        LET i == CHOOSE j \in 1..Len(sorted) : IntToStr(j) = k
        IN  Slice(t, sorted[i][1], sorted[i][2])]

\* the pair (modified, refs_map) for a document and the reported tag list
extract_refs_from_text(t, reported) ==
    LET sorted == SortByStart(reported)
    IN  <<ApplyReversed(t, sorted, Len(sorted)), BuildRefsMap(t, sorted)>>

(***************************************************************************)
(* refs.py: restore_refs_in_text                                           *)
(***************************************************************************)
RECURSIVE DigitsEnd(_, _)
\* last position of the digit run that starts at position i (i - 1 if none)
DigitsEnd(t, i) ==
    IF i <= Len(t) /\ t[i] \in Digits THEN DigitsEnd(t, i + 1) ELSE i - 1

\* PLACEHOLDER_PATTERN r"\[(ref\d+)\]" matched at position i: the position
\* of the closing bracket, 0 when there is no match at i
MatchEnd(t, i) ==
    IF i <= Len(t) /\ t[i] = "[ref"
       /\ DigitsEnd(t, i + 1) >= i + 1
       /\ DigitsEnd(t, i + 1) + 1 <= Len(t)
       /\ t[DigitsEnd(t, i + 1) + 1] = "]"
    THEN DigitsEnd(t, i + 1) + 1
    ELSE 0

\* refs_map.get(key, ""): a placeholder with an unknown key is dropped
ReplDropUnknown(t, i, e, m) ==
    LET key == SubSeq(t, i + 1, e - 1)
    IN  IF key \in DOMAIN m THEN m[key] ELSE <<>>

\* _repl: refs_map.get(key, match.group(0))
Repl(t, i, e, m) ==
    LET key == SubSeq(t, i + 1, e - 1)
    IN  IF key \in DOMAIN m THEN m[key] ELSE SubSeq(t, i, e)

RECURSIVE SubFrom(_, _, _)
\* PLACEHOLDER_PATTERN.sub(_repl, text): leftmost non-overlapping matches,
\* scanning resumes after each match in the input text
SubFrom(t, i, m) ==
    IF i > Len(t) THEN <<>>
    ELSE IF MatchEnd(t, i) # 0
         THEN Repl(t, i, MatchEnd(t, i), m) \o SubFrom(t, MatchEnd(t, i) + 1, m)
    ELSE <<t[i]>> \o SubFrom(t, i + 1, m)

\* a restoration that returns the edited text as it is
restore_refs_omitted(t, m) == t

restore_refs_in_text(t, m) == SubFrom(t, 1, m)

(***************************************************************************)
(* storage.py: slugify_title.  A title is a sequence of characters.        *)
(***************************************************************************)
LowerChars == {"a", "b", "c", "e", "n", "o"}

UpperChars == {"A", "B", "C"}

\* U+00E9 is e with acute, U+0301 the combining acute accent, U+0639 the
\* Arabic letter ain, U+FF0F the fullwidth solidus
NonAsciiChars == {"U+00E9", "U+0301", "U+0639", "U+FF0F"}

\* unicodedata.normalize("NFKD", c): U+00E9 decomposes into "e" and the
\* combining acute accent, the fullwidth solidus into the ASCII "/"; the
\* other characters are unchanged
NFKD(c) == CASE c = "U+00E9" -> <<"e", "U+0301">>
             [] c = "U+FF0F" -> <<"/">>
             [] OTHER -> <<c>>

\* str.lower() on one character
LowerChar(c) == CASE c = "A" -> "a" [] c = "B" -> "b" [] c = "C" -> "c" [] OTHER -> c

RECURSIVE Normalize(_)
Normalize(s) == IF s = <<>> THEN <<>> ELSE NFKD(Head(s)) \o Normalize(Tail(s))

\* .encode("ascii", "ignore").decode("ascii")
AsciiIgnore(s) == SelectSeq(s, LAMBDA c : c \notin NonAsciiChars)

LowerStr(s) == [i \in 1..Len(s) |-> LowerChar(s[i])]

RECURSIVE SkipWhileNotIn(_, _)
SkipWhileNotIn(s, keep) ==
    IF s = <<>> \/ Head(s) \in keep THEN s ELSE SkipWhileNotIn(Tail(s), keep)

RECURSIVE SubRunsNotIn(_, _)
\* re.sub(r"[^...]+", "-", s) for the character class `keep`
SubRunsNotIn(s, keep) ==
    IF s = <<>> THEN <<>>
    ELSE IF Head(s) \in keep THEN <<Head(s)>> \o SubRunsNotIn(Tail(s), keep)
    ELSE <<"-">> \o SubRunsNotIn(SkipWhileNotIn(Tail(s), keep), keep)

RECURSIVE SkipHyphens(_)
SkipHyphens(s) == IF s = <<>> \/ Head(s) # "-" THEN s ELSE SkipHyphens(Tail(s))

RECURSIVE CollapseHyphens(_)
\* re.sub(r"-+", "-", s)
CollapseHyphens(s) ==
    IF s = <<>> THEN <<>>
    ELSE IF Head(s) = "-" THEN <<"-">> \o CollapseHyphens(SkipHyphens(Tail(s)))
    ELSE <<Head(s)>> \o CollapseHyphens(Tail(s))

RECURSIVE StripRight(_)
StripRight(s) ==
    IF s = <<>> \/ s[Len(s)] # "-" THEN s ELSE StripRight(SubSeq(s, 1, Len(s) - 1))

\* a strip that removes the leading hyphens only
StripLeftOnly(s) == SkipHyphens(s)

\* s.strip("-")
StripHyphens(s) == StripRight(SkipHyphens(s))

\* storage.py keeps [a-z0-9]
StorageSlugChars == LowerChars \cup Digits

\* a slugify_title that strips the hyphens before it replaces the runs
slugify_title_strip_first(title) ==
    CollapseHyphens(
        SubRunsNotIn(StripHyphens(LowerStr(AsciiIgnore(Normalize(title)))),
                     StorageSlugChars))

\* storage.py: the slugify_title that create_workspace calls
slugify_title(title) ==
    StripHyphens(CollapseHyphens(
        SubRunsNotIn(LowerStr(AsciiIgnore(Normalize(title))), StorageSlugChars)))

\* utils.py NON_ALPHANUMERIC_PATTERN keeps [a-z0-9_]
UtilsSlugChars == LowerChars \cup Digits \cup {"_"}

\* utils.py: the slugify_title that the login route applies to user names
utils_slugify_title(title) ==
    StripHyphens(CollapseHyphens(
        SubRunsNotIn(LowerStr(AsciiIgnore(Normalize(title))), UtilsSlugChars)))

(***************************************************************************)
(* storage.py: safe_workspace_path.  A path is a sequence of components.   *)
(***************************************************************************)
Root == << <<"r", "o", "o", "t">> >>

NoPath == <<>>

reserved_names ==
    {<<"c", "o", "n">>, <<"p", "r", "n">>, <<"a", "u", "x">>, <<"n", "u", "l">>}
    \cup {<<"c", "o", "m", d>> : d \in Digits \ {"0"}}
    \cup {<<"l", "p", "t", d>> : d \in Digits \ {"0"}}

\* ".." in slug or "/" in slug or "\\" in slug
HasTraversal(slug) ==
    \/ \E i \in 1..(Len(slug) - 1) : slug[i] = "." /\ slug[i + 1] = "."
    \/ \E i \in 1..Len(slug) : slug[i] \in {"/", "\\"}

\* no symbolic link below the root
NoLinks == <<>>

\* (root / slug).resolve(): "." names the root itself, a symbolic link is
\* replaced by its (canonical) target, any other name is a child of the root
Resolve(root, slug) ==
    IF slug = <<".">> THEN root
    ELSE IF slug \in DOMAIN links THEN links[slug]
    ELSE Append(root, slug)

IsPrefix(p, q) == Len(p) <= Len(q) /\ SubSeq(q, 1, Len(p)) = p

Parent(p) == SubSeq(p, 1, Len(p) - 1)

safe_workspace_path(root, slug) ==
    IF HasTraversal(slug) THEN NoPath
    ELSE IF LowerStr(slug) \in reserved_names THEN NoPath
    ELSE IF slug = <<>> THEN NoPath
    ELSE LET resolved == Resolve(root, slug)
         IN  IF ~(IsPrefix(root, resolved) /\ resolved # root) /\ resolved # root
                /\ Parent(resolved) # root
             THEN NoPath
             ELSE resolved

(***************************************************************************)
(* storage.py: the files of a workspace directory                          *)
(***************************************************************************)
FileNames == {"original.wiki", "refs.json", "editable.wiki", "restored.wiki", "meta.json"}

NoStatus == ""

\* the metadata object before any field is set; status = NoStatus means the
\* object has no "status" key
NoMeta == [title_original |-> <<>>, slug |-> <<>>, created_at |-> <<>>,
           updated_at |-> <<>>, refs_count |-> 0, status |-> NoStatus]

DefaultData(name) == IF name = "meta.json" THEN NoMeta ELSE <<>>

\* a file is absent, readable with the content the program wrote ("ok"),
\* present with content that does not parse as JSON ("corrupt"), present but
\* not readable by the process ("unreadable"), present with valid JSON that
\* is not an object, such as [] ("nondict"), or holds only a part of the
\* content a write() was given ("partial")
AbsentFile(name) == [st |-> "absent", data |-> DefaultData(name)]

CorruptFile(name) == [st |-> "corrupt", data |-> DefaultData(name)]

UnreadableFile(name) == [st |-> "unreadable", data |-> DefaultData(name)]

NonDictFile(name) == [st |-> "nondict", data |-> DefaultData(name)]

EmptyDir == [n \in FileNames |-> AbsentFile(n)]

\* path.exists()
Exists(fs, slug, name) == fs[slug][name].st # "absent"

\* atomic_write(path, content) that completed: the rename replaced the file
atomic_write(fs, slug, name, content) ==
    [fs EXCEPT ![slug][name] = [st |-> "ok", data |-> content]]

\* write_json: json.dumps followed by atomic_write
write_json(fs, slug, name, obj) == atomic_write(fs, slug, name, obj)

\* a write that fails after it truncated the target
FailedWriteTruncates(fs, slug, name) == [fs EXCEPT ![slug][name] = CorruptFile(name)]

\* atomic_write that raises: the except clause unlinks the temporary file,
\* os.replace did not run, the target is as it was
FailedWrite(fs, slug, name) == fs

\* a read_json that swallows the parse error and returns an empty object
ReadJsonErrorSwallowed(fs, slug, name) ==
    IF fs[slug][name].st = "absent" THEN "FileNotFoundError" ELSE ""

\* read_json: the error that read_text or json.loads raises, "" when the
\* file parses
ReadJsonError(fs, slug, name) ==
    CASE fs[slug][name].st = "absent" -> "FileNotFoundError"
      [] fs[slug][name].st = "unreadable" -> "OSError"
      [] fs[slug][name].st \in {"corrupt", "partial"} -> "JSONDecodeError"
      [] OTHER -> ""

read_json(fs, slug, name) == fs[slug][name].data

\* datetime.utcnow().isoformat() + "Z" at a clock value counted in half
\* seconds: isoformat() leaves the fraction out when the microseconds are 0
IsoFormat(t) == IF t % 2 = 0 THEN <<t \div 2, "Z">> ELSE <<t \div 2, ".500000Z">>

(***************************************************************************)
(* storage.py: create_workspace                                            *)
(***************************************************************************)
\* a create_workspace that writes the metadata before the restored text
CreateStagesMetaEarly ==
    <<"mkdir", "extract", "original", "refs", "editable", "meta", "restored">>

CreateStages == <<"mkdir", "extract", "original", "refs", "editable", "restored", "meta">>

CreateFailPoints == {CreateStages[i] : i \in 1..Len(CreateStages)} \cup {"none"}

StageIndex(stage) ==
    IF stage = "none" THEN Len(CreateStages) + 1
    ELSE CHOOSE i \in 1..Len(CreateStages) : CreateStages[i] = stage

\* the stage completed before the call stopped at `fail`
Done(fail, stage) == StageIndex(stage) < StageIndex(fail)

\* the file each writing stage of create_workspace writes
StageFile(stage) ==
    CASE stage = "original" -> "original.wiki"
      [] stage = "refs" -> "refs.json"
      [] stage = "editable" -> "editable.wiki"
      [] stage = "restored" -> "restored.wiki"
      [] stage = "meta" -> "meta.json"

WriteStages == {"original", "refs", "editable", "restored", "meta"}

\* the directory of a path below the root
DirOf(path) == path[Len(path)]

\* the files after the writes of create_workspace that precede `fail`
CreateWrites(fs, slug, title, wikitext, reported, fail, now) ==
    LET ex == extract_refs_from_text(wikitext, reported)
        meta == [NoMeta EXCEPT !.title_original = title, !.slug = slug,
                               !.created_at = now, !.updated_at = now,
                               !.refs_count = Cardinality(DOMAIN ex[2])]
        w1 == IF Done(fail, "original")
              THEN atomic_write(fs, slug, "original.wiki", wikitext) ELSE fs
        w2 == IF Done(fail, "refs") THEN write_json(w1, slug, "refs.json", ex[2]) ELSE w1
        w3 == IF Done(fail, "editable")
              THEN atomic_write(w2, slug, "editable.wiki", ex[1]) ELSE w2
        w4 == IF Done(fail, "restored")
              THEN atomic_write(w3, slug, "restored.wiki", wikitext) ELSE w3
        w5 == IF Done(fail, "meta") THEN write_json(w4, slug, "meta.json", meta) ELSE w4
    IN  w5

\* probe is the path whose existence the call tested on disk, listing the
\* list a list_workspaces call returned
NoLast == [op |-> "none", title |-> <<>>, slug |-> <<>>, path |-> NoPath,
           name |-> "", arg |-> NoText, status |-> NoStatus, err |-> "",
           is_new |-> FALSE, found |-> FALSE, ret |-> NoText,
           probe |-> NoPath, listing |-> <<>>]

NotTouched == 0 - 1

\* the time of the last create_workspace that created the directory or
\* update_workspace that returned, per directory
Touch(tc, call, now) ==
    IF call.err = "" /\ (call.op = "update" \/ (call.op = "create" /\ call.is_new))
    THEN [tc EXCEPT ![call.slug] = now]
    ELSE tc

\* the titles submitted: two titles of one workspace, a reserved device
\* name and a title without any ASCII character
Titles == {<<"a">>, <<"A">>, <<"c", "o", "n">>, <<"U+0639">>}

\* the directories that can exist under the root
WsSlugs == {slug \in {slugify_title(t) : t \in Titles} :
               safe_workspace_path(Root, slug) # NoPath}

WsDocs == {<<"<ref/>", "x">>, <<"[ref", "1", "]", "<ref/>">>}

\* create_workspace without the check of the empty slug
SlugIsEmptyUnchecked(slug) == FALSE

\* if not slug
SlugIsEmpty(slug) == slug = <<>>

\* create_workspace without the check of the existing workspace
WorkspaceExistsUnchecked(fs, slug) == FALSE

\* original_path.exists(), the negation of is_new
WorkspaceExists(fs, slug) == Exists(fs, slug, "original.wiki")

\* create_workspace(root, title, wikitext); `fail` is the step at which an
\* I/O error (or, for "extract", an exception of the parser) ends the call
create_workspace(title, wikitext, fail) ==
    LET slug == slugify_title(title)
        workspace_path == safe_workspace_path(Root, slug)
        call == [NoLast EXCEPT !.op = "create", !.title = title, !.arg = wikitext]
    IN  IF SlugIsEmpty(slug)
        THEN /\ last' = [call EXCEPT !.err = "ValueError: Invalid title"]
             /\ UNCHANGED <<dirs, files>>
        ELSE IF workspace_path = NoPath
        THEN /\ last' = [call EXCEPT !.slug = slug, !.err = "ValueError: Invalid workspace path"]
             /\ UNCHANGED <<dirs, files>>
        ELSE IF WorkspaceExists(files, DirOf(workspace_path))
        THEN /\ last' = [call EXCEPT !.slug = slug, !.path = workspace_path, !.is_new = FALSE]
             /\ UNCHANGED <<dirs, files>>
        ELSE /\ dirs' = IF Done(fail, "mkdir") THEN dirs \cup {DirOf(workspace_path)} ELSE dirs
             /\ \E reported \in ReportOrders(ScanTags(wikitext)) :
                    files' = CreateWrites(files, DirOf(workspace_path), title, wikitext,
                                          reported, fail, IsoFormat(clock))
             /\ last' = IF fail = "none"
                        THEN [call EXCEPT !.slug = slug, !.path = workspace_path,
                                          !.is_new = TRUE]
                        ELSE [call EXCEPT !.slug = slug,
                                          !.err = IF fail = "extract" THEN "Exception"
                                                  ELSE "OSError"]

CreateWorkspace ==
    /\ \E title \in Titles, wikitext \in WsDocs, fail \in CreateFailPoints :
          create_workspace(title, wikitext, fail)
    /\ touched' = Touch(touched, last', clock)
    /\ UNCHANGED <<clock, frameVars>>

(***************************************************************************)
(* storage.py: update_workspace                                            *)
(***************************************************************************)
UpdateFailPoints == {"none", "editable", "restored", "meta"}

\* an update that stamps the creation time as well
StampCreatedToo(meta, now) == [meta EXCEPT !.updated_at = now, !.created_at = now]

\* meta["updated_at"] = datetime.utcnow().isoformat() + "Z"
StampUpdated(meta, now) == [meta EXCEPT !.updated_at = now]

EditTexts == {<<"[ref", "1", "]">>, <<"x", "[ref", "2", "]">>}

\* update_workspace(workspace_path, editable_content) on the directory `slug`
\* of the root; `fail` is the write at which an I/O error ends the call
update_workspace(slug, editable_content, fail) ==
    LET call == [NoLast EXCEPT !.op = "update", !.slug = slug,
                               !.path = Append(Root, slug), !.arg = editable_content]
        refs_err == ReadJsonError(files, slug, "refs.json")
        map == read_json(files, slug, "refs.json")
        restored_content == restore_refs_in_text(editable_content, map)
        w1 == atomic_write(files, slug, "editable.wiki", editable_content)
        w2 == atomic_write(w1, slug, "restored.wiki", restored_content)
        meta_err == ReadJsonError(files, slug, "meta.json")
        meta == StampUpdated(read_json(files, slug, "meta.json"), IsoFormat(clock))
        w3 == write_json(w2, slug, "meta.json", meta)
    IN  IF refs_err # ""
        THEN /\ last' = [call EXCEPT !.err = refs_err]
             /\ UNCHANGED files
        ELSE IF fail = "editable"
        THEN /\ last' = [call EXCEPT !.err = "OSError"]
             /\ files' = FailedWrite(files, slug, "editable.wiki")
        ELSE IF fail = "restored"
        THEN /\ last' = [call EXCEPT !.err = "OSError"]
             /\ files' = FailedWrite(w1, slug, "restored.wiki")
        ELSE IF ~Exists(files, slug, "meta.json")
        THEN /\ last' = [call EXCEPT !.ret = restored_content]
             /\ files' = w2
        ELSE IF meta_err # ""
        THEN /\ last' = [call EXCEPT !.err = meta_err]
             /\ files' = w2
        ELSE IF files[slug]["meta.json"].st = "nondict"
        THEN /\ last' = [call EXCEPT !.err = "TypeError"]
             /\ files' = w2
        ELSE IF fail = "meta"
        THEN /\ last' = [call EXCEPT !.err = "OSError"]
             /\ files' = FailedWrite(w2, slug, "meta.json")
        ELSE /\ last' = [call EXCEPT !.ret = restored_content]
             /\ files' = w3

UpdateWorkspace ==
    /\ \E slug \in DOMAIN files, editable_content \in EditTexts, fail \in UpdateFailPoints :
          update_workspace(slug, editable_content, fail)
    /\ touched' = Touch(touched, last', clock)
    /\ UNCHANGED <<dirs, clock, frameVars>>

(***************************************************************************)
(* storage.py: get_workspace_file                                          *)
(***************************************************************************)
allowed_files == {"original.wiki", "refs.json", "editable.wiki", "restored.wiki", "meta.json"}

RequestNames == allowed_files \cup {"../meta.json", "notes.txt"}

\* a get_workspace_file that looks up every name it is given
NameAllowedUnchecked(filename) == TRUE

\* filename in allowed_files
NameAllowed(filename) == filename \in allowed_files

\* the file at workspace_path / filename; the directory of a workspace holds
\* the five artifacts and nothing else, and "../meta.json" names a file of
\* the root, where the program writes nothing
FileAt(fs, slug, filename) ==
    IF filename \in FileNames THEN fs[slug][filename] ELSE AbsentFile(filename)

\* get_workspace_file(workspace_path, filename) on the directory `slug`:
\* found is FALSE when the call returns None, ret the text it returns, probe
\* the path it built and tested, err the error read_text raised
get_workspace_file(fs, slug, filename) ==
    LET call == [NoLast EXCEPT !.op = "get_file", !.slug = slug,
                               !.path = Append(Root, slug), !.name = filename]
        file_path == Append(Append(Root, slug), filename)
        file == FileAt(fs, slug, filename)
    IN  IF ~NameAllowed(filename) THEN call
        ELSE IF file.st = "absent" THEN [call EXCEPT !.probe = file_path]
        ELSE IF file.st = "unreadable"
        THEN [call EXCEPT !.probe = file_path, !.err = "OSError"]
        ELSE [call EXCEPT !.probe = file_path, !.found = TRUE, !.ret = file.data]

GetWorkspaceFile ==
    /\ \E slug \in DOMAIN files, filename \in RequestNames :
          last' = get_workspace_file(files, slug, filename)
    /\ UNCHANGED <<dirs, files, clock, touched, frameVars>>

(***************************************************************************)
(* storage.py: list_workspaces                                             *)
(***************************************************************************)
\* every order in which the elements of a finite set can be enumerated
Orders(S) ==
    LET n == Cardinality(S)
    IN  {q \in [1..n -> S] : \A i, j \in 1..n : q[i] = q[j] => i = j}

\* a < b for two strings that isoformat() + "Z" produced within one minute:
\* the seconds have a fixed width, and after them "." (U+002E) sorts before
\* "Z" (U+005A)
IsoLess(a, b) == a[1] < b[1] \/ (a[1] = b[1] /\ a[2] = ".500000Z" /\ b[2] = "Z")

\* the dict list_workspaces appends for a directory with readable metadata
ListEntry(fs, slug) ==
    LET meta == fs[slug]["meta.json"].data
    IN  [slug |-> slug, title |-> meta.title_original, created_at |-> meta.created_at,
         updated_at |-> meta.updated_at, refs_count |-> meta.refs_count]

RECURSIVE ScanDirs(_, _)
\* the loop over root.iterdir(): a directory whose meta.json is absent, does
\* not parse or cannot be read is skipped
ScanDirs(fs, order) ==
    IF order = <<>> THEN <<>>
    ELSE IF fs[Head(order)]["meta.json"].st = "ok"
         THEN <<ListEntry(fs, Head(order))>> \o ScanDirs(fs, Tail(order))
    ELSE ScanDirs(fs, Tail(order))

RECURSIVE InsertByUpdated(_, _)
InsertByUpdated(sorted, w) ==
    IF sorted = <<>> THEN <<w>>
    ELSE IF IsoLess(Head(sorted).updated_at, w.updated_at) THEN <<w>> \o sorted
    ELSE <<Head(sorted)>> \o InsertByUpdated(Tail(sorted), w)

RECURSIVE SortByUpdated(_)
\* workspaces.sort(key=lambda w: w.get("updated_at", ""), reverse=True):
\* stable, descending by the string
SortByUpdated(ws) ==
    IF ws = <<>> THEN <<>>
    ELSE InsertByUpdated(SortByUpdated(SubSeq(ws, 1, Len(ws) - 1)), ws[Len(ws)])

\* list_workspaces(root) when iterdir() yields the directories in `order`.
\* meta.get on a JSON value that is not an object raises AttributeError,
\* which the except clause (JSONDecodeError, OSError) does not catch.
list_workspaces(fs, order) ==
    LET call == [NoLast EXCEPT !.op = "list"]
    IN  IF \E i \in 1..Len(order) : fs[order[i]]["meta.json"].st = "nondict"
        THEN [call EXCEPT !.err = "AttributeError"]
        ELSE [call EXCEPT !.listing = SortByUpdated(ScanDirs(fs, order))]

ListWorkspaces ==
    /\ \E order \in Orders(dirs) : last' = list_workspaces(files, order)
    /\ UNCHANGED <<dirs, files, clock, touched, frameVars>>

(***************************************************************************)
(* workspaces/routes.py: save_workspace                                    *)
(***************************************************************************)
Statuses == {"done", "processing"}

RouteSlugs == WsSlugs \cup {<<".">>, <<".", ".">>, <<"c", "o", "n">>}

\* workspace_path.exists(): the user root exists once _get_user_root has
\* run, a directory below it exists once create_workspace has made it
PathExists(ds, path) == path = Root \/ (Parent(path) = Root /\ DirOf(path) \in ds)

\* POST /<slug>/save with the form fields editable_content and status.
\* The route calls update_workspace(workspace_path, editable_content,
\* status=status); update_workspace takes two parameters, so the call raises
\* TypeError before its body runs, and the route's `except Exception` turns
\* that into a flash message and a redirect to the edit page.
save_workspace(slug, editable_content, status) ==
    LET workspace_path == safe_workspace_path(Root, slug)
        call == [NoLast EXCEPT !.op = "save", !.slug = slug, !.status = status]
    IN  IF workspace_path = NoPath \/ ~PathExists(dirs, workspace_path)
        THEN last' = [call EXCEPT !.err = "404"]
        ELSE last' = [call EXCEPT !.path = workspace_path, !.err = "TypeError"]

SaveWorkspace ==
    /\ \E slug \in RouteSlugs, editable_content \in EditTexts,
          status \in Statuses \cup {NoStatus} :
          save_workspace(slug, editable_content, status)
    /\ UNCHANGED <<dirs, files, clock, touched, frameVars>>

(***************************************************************************)
(* The storage state machine                                               *)
(***************************************************************************)
\* time passes between two operations
Tick ==
    /\ clock < MaxClock
    /\ clock' = clock + 1
    /\ last' = [NoLast EXCEPT !.op = "tick"]
    /\ UNCHANGED <<dirs, files, touched, frameVars>>

RefsIdle ==
    /\ text = NoText
    /\ tags = <<>>
    /\ modified = NoText
    /\ refs_map = NoMap
    /\ restored = NoText
    /\ rpc = "idle"

\* no update_workspace call is in progress
WriterIdle ==
    /\ proc = <<>>
    /\ tmp = <<>>

NoUser == <<>>

\* no browser session: the storage functions are called directly
WebIdle ==
    /\ session = NoUser
    /\ owner = <<>>

Init ==
    /\ links = NoLinks
    /\ RefsIdle
    /\ WriterIdle
    /\ WebIdle
    /\ dirs = {}
    /\ files = [s \in WsSlugs |-> EmptyDir]
    /\ touched = [s \in WsSlugs |-> NotTouched]
    /\ clock = 0
    /\ last = NoLast

Next ==
    \/ CreateWorkspace
    \/ UpdateWorkspace
    \/ GetWorkspaceFile
    \/ ListWorkspaces
    \/ SaveWorkspace
    \/ Tick

Spec == Init /\ [][Next]_vars

\* another program or a crash of the disk removes a file or leaves a JSON
\* file that does not parse
Damage ==
    /\ \E slug \in DOMAIN files, name \in {"refs.json", "meta.json"} :
          /\ Exists(files, slug, name)
          /\ \/ files' = [files EXCEPT ![slug][name] = AbsentFile(name)]
             \/ files' = [files EXCEPT ![slug][name] = CorruptFile(name)]
    /\ last' = [NoLast EXCEPT !.op = "damage"]
    /\ UNCHANGED <<dirs, clock, touched, frameVars>>

\* the operations that write, and the damage; the operations that only read
\* (get_workspace_file, list_workspaces, the save route) leave dirs and files
\* as they are and add no file-system state
NextEnv ==
    \/ CreateWorkspace
    \/ UpdateWorkspace
    \/ Tick
    \/ Damage

SpecEnv == Init /\ [][NextEnv]_vars


(***************************************************************************)
(* Two workspaces under one root: create, update and list                  *)
(***************************************************************************)
ListTitles == {<<"a">>, <<"b", "_">>}

\* the directory names either slugify_title derives for the titles
ListDirs == {slugify_title(t) : t \in ListTitles}
            \cup {utils_slugify_title(t) : t \in ListTitles}

ListDoc == <<"<ref/>", "x">>

ListText == <<"[ref", "1", "]">>

ListInit ==
    /\ links = NoLinks
    /\ RefsIdle
    /\ WriterIdle
    /\ WebIdle
    /\ dirs = {}
    /\ files = [s \in ListDirs |-> EmptyDir]
    /\ touched = [s \in ListDirs |-> NotTouched]
    /\ clock = 0
    /\ last = NoLast

\* create_workspace that completes or stops before it writes meta.json
ListCreate ==
    /\ \E title \in ListTitles, fail \in {"none", "meta"} :
          create_workspace(title, ListDoc, fail)
    /\ touched' = Touch(touched, last', clock)
    /\ UNCHANGED <<clock, frameVars>>

ListUpdate ==
    /\ \E slug \in dirs : update_workspace(slug, ListText, "none")
    /\ touched' = Touch(touched, last', clock)
    /\ UNCHANGED <<dirs, clock, frameVars>>

ListNext == ListCreate \/ ListUpdate \/ ListWorkspaces \/ Tick

SpecList == ListInit /\ [][ListNext]_vars

\* another program removes meta.json, makes it unreadable, or replaces its
\* content by text that is not JSON or by JSON that is not an object
DamageMeta ==
    /\ \E slug \in dirs :
          /\ files[slug]["meta.json"].st = "ok"
          /\ \E bad \in {AbsentFile("meta.json"), CorruptFile("meta.json"),
                          UnreadableFile("meta.json"), NonDictFile("meta.json")} :
                 files' = [files EXCEPT ![slug]["meta.json"] = bad]
    /\ last' = [NoLast EXCEPT !.op = "damage"]
    /\ UNCHANGED <<dirs, clock, touched, frameVars>>

ListEnvNext == ListNext \/ DamageMeta

SpecListEnv == ListInit /\ [][ListEnvNext]_vars

(***************************************************************************)
(* Concurrent update_workspace calls, one step of atomic_write at a time   *)
(***************************************************************************)
Procs == {1, 2}

ConcSlugs == {<<"a">>, <<"b">>}

\* the text each call saves
ConcText(p) == IF p = 1 THEN <<"[ref", "1", "]">> ELSE <<"x", "[ref", "1", "]">>

NoTmp == [st |-> "absent", data |-> <<>>]

\* the names a temporary file can have: the directory, the artifact it is
\* written for, and the part that mkstemp makes unique per call
TempNames == ConcSlugs \X FileNames \X (Procs \cup {0})

NoProc == [pc |-> "idle", slug |-> <<>>, arg |-> NoText, map |-> NoMap,
           name |-> "", content |-> <<>>, err |-> ""]

\* both workspaces as create_workspace left them at time 0
ConcFiles ==
    LET created(fs, slug) ==
            CreateWrites(fs, slug, slug, ListDoc, ScanTags(ListDoc), "none", IsoFormat(0))
    IN  created(created([g \in ConcSlugs |-> EmptyDir], <<"a">>), <<"b">>)

ConcInit ==
    /\ links = NoLinks
    /\ RefsIdle
    /\ dirs = ConcSlugs
    /\ files = ConcFiles
    /\ touched = [g \in ConcSlugs |-> 0]
    /\ clock = MaxClock
    /\ last = [g \in ConcSlugs |-> [n \in FileNames |-> 0]]
    /\ proc = [p \in Procs |-> NoProc]
    /\ tmp = [k \in TempNames |-> NoTmp]
    /\ WebIdle

\* the temporary file named after the path alone (path + ".tmp"), which all
\* calls that write the same path share
TempNameFixed(p) == <<proc[p].slug, proc[p].name, 0>>

\* tempfile.mkstemp(dir=str(dir_path), suffix=".tmp"): a file in the
\* directory of the path under a name no other call holds
TempName(p) == <<proc[p].slug, proc[p].name, p>>

\* os.unlink(temp_path)
Unlink(t, p) == [t EXCEPT ![TempName(p)] = NoTmp]

\* the call raised `err`
Raised(p, err) == [proc EXCEPT ![p].pc = "raised", ![p].err = err]

\* update_workspace(workspace_path, editable_content) is called
Call(p) ==
    /\ proc[p].pc = "idle"
    /\ \E slug \in ConcSlugs :
          proc' = [proc EXCEPT ![p] = [NoProc EXCEPT !.pc = "read_refs", !.slug = slug,
                                                     !.arg = ConcText(p)]]
    /\ UNCHANGED <<files, tmp, last>>

\* refs_map = read_json(refs_path), then atomic_write(editable_path, ...)
\* is entered
ReadRefs(p) ==
    /\ proc[p].pc = "read_refs"
    /\ proc' = IF ReadJsonError(files, proc[p].slug, "refs.json") # ""
               THEN Raised(p, ReadJsonError(files, proc[p].slug, "refs.json"))
               ELSE [proc EXCEPT ![p].pc = "mkstemp",
                                 ![p].map = read_json(files, proc[p].slug, "refs.json"),
                                 ![p].name = "editable.wiki",
                                 ![p].content = proc[p].arg]
    /\ UNCHANGED <<files, tmp, last>>

\* atomic_write: mkstemp creates an empty temporary file, or fails before
\* the try block is entered
MkStemp(p) ==
    /\ proc[p].pc = "mkstemp"
    /\ \/ /\ tmp' = [tmp EXCEPT ![TempName(p)] = [st |-> "partial", data |-> <<>>]]
          /\ proc' = [proc EXCEPT ![p].pc = "write"]
       \/ /\ proc' = Raised(p, "OSError")
          /\ UNCHANGED tmp
    /\ UNCHANGED <<files, last>>

\* atomic_write: f.write(content) and the close of the file, or an error
\* that leaves a part of the content in the temporary file
Write(p) ==
    /\ proc[p].pc = "write"
    /\ \/ /\ tmp' = [tmp EXCEPT ![TempName(p)] = [st |-> "ok", data |-> proc[p].content]]
          /\ proc' = [proc EXCEPT ![p].pc = "replace"]
       \/ /\ tmp' = [tmp EXCEPT ![TempName(p)] = [st |-> "partial", data |-> <<>>]]
          /\ proc' = [proc EXCEPT ![p].pc = "cleanup"]
    /\ UNCHANGED <<files, last>>

\* what update_workspace does after the atomic_write of `name` returned
AfterWrite(p) ==
    CASE proc[p].name = "editable.wiki" -> [proc EXCEPT ![p].pc = "restore"]
      [] proc[p].name = "restored.wiki" -> [proc EXCEPT ![p].pc = "read_meta"]
      [] OTHER -> [proc EXCEPT ![p].pc = "done"]

\* atomic_write: os.replace(temp_path, path) moves the temporary file onto
\* the path in one step, or fails (as it does when the temporary file is
\* gone) and leaves the path as it was
Replace(p) ==
    /\ proc[p].pc = "replace"
    /\ \/ /\ tmp[TempName(p)].st # "absent"
          /\ files' = [atomic_write(files, proc[p].slug, proc[p].name,
                                     tmp[TempName(p)].data)
                           EXCEPT ![proc[p].slug][proc[p].name].st = tmp[TempName(p)].st]
          /\ tmp' = [tmp EXCEPT ![TempName(p)] = NoTmp]
          /\ last' = [last EXCEPT ![proc[p].slug][proc[p].name] = p]
          /\ proc' = AfterWrite(p)
       \/ /\ proc' = [proc EXCEPT ![p].pc = "cleanup"]
          /\ UNCHANGED <<files, tmp, last>>

\* the text to restore read back from editable.wiki
EditableReadBack(p) == files[proc[p].slug]["editable.wiki"].data

\* the text to restore is the editable_content argument of the call
EditableContent(p) == proc[p].arg

\* restored_content = restore_refs_in_text(editable_content, refs_map), then
\* atomic_write(restored_path, restored_content) is entered
RestoreText(p) ==
    /\ proc[p].pc = "restore"
    /\ proc' = [proc EXCEPT ![p].pc = "mkstemp", ![p].name = "restored.wiki",
                            ![p].content =
                                restore_refs_in_text(EditableContent(p), proc[p].map)]
    /\ UNCHANGED <<files, tmp, last>>

\* atomic_write: the except block removes the temporary file and re-raises
Cleanup(p) ==
    /\ proc[p].pc = "cleanup"
    /\ tmp' = Unlink(tmp, p)
    /\ proc' = Raised(p, "OSError")
    /\ UNCHANGED <<files, last>>

\* if meta_path.exists(): meta = read_json(meta_path); meta["updated_at"] =
\* now; then write_json(meta_path, meta) is entered
ReadMeta(p) ==
    /\ proc[p].pc = "read_meta"
    /\ proc' =
          IF ~Exists(files, proc[p].slug, "meta.json")
          THEN [proc EXCEPT ![p].pc = "done"]
          ELSE IF ReadJsonError(files, proc[p].slug, "meta.json") # ""
          THEN Raised(p, ReadJsonError(files, proc[p].slug, "meta.json"))
          ELSE IF files[proc[p].slug]["meta.json"].st = "nondict"
          THEN Raised(p, "TypeError")
          ELSE [proc EXCEPT ![p].pc = "mkstemp", ![p].name = "meta.json",
                            ![p].content =
                                StampUpdated(read_json(files, proc[p].slug, "meta.json"),
                                             IsoFormat(clock))]
    /\ UNCHANGED <<files, tmp, last>>

ConcStep(p) ==
    \/ Call(p)
    \/ ReadRefs(p)
    \/ MkStemp(p)
    \/ Write(p)
    \/ Replace(p)
    \/ RestoreText(p)
    \/ Cleanup(p)
    \/ ReadMeta(p)

ConcNext ==
    /\ \E p \in Procs : ConcStep(p)
    /\ UNCHANGED <<dirs, clock, touched, links, refsVars, webVars>>

SpecConc == ConcInit /\ [][ConcNext]_vars

(***************************************************************************)
(* Concurrent create_workspace calls for one title, one statement at a     *)
(* time; every atomic_write is one step                                    *)
(***************************************************************************)
CreateTitle == <<"a">>

\* the document each call submits
CreateDoc(p) == IF p = 1 THEN <<"<ref/>", "x">> ELSE <<"x", "<ref>", "</ref>", "<ref/>">>

NoCreate == [pc |-> "idle", slug |-> <<>>, wikitext |-> NoText, is_new |-> FALSE,
             editable_text |-> NoText, refs_map |-> NoMap, err |-> ""]

CreateInit ==
    /\ links = NoLinks
    /\ RefsIdle
    /\ WebIdle
    /\ dirs = {}
    /\ files = [g \in {slugify_title(CreateTitle)} |-> EmptyDir]
    /\ touched = <<>>
    /\ clock = 0
    /\ last = <<>>
    /\ proc = [p \in Procs |-> NoCreate]
    /\ tmp = <<>>

\* create_workspace(root, title, wikitext) is called: the slug and the
\* path are computed
CreateCall(p) ==
    /\ proc[p].pc = "idle"
    /\ LET slug == slugify_title(CreateTitle)
           call == [NoCreate EXCEPT !.slug = slug, !.wikitext = CreateDoc(p)]
       IN  proc' = [proc EXCEPT ![p] =
                       IF SlugIsEmpty(slug) \/ safe_workspace_path(Root, slug) = NoPath
                       THEN [call EXCEPT !.pc = "raised", !.err = "ValueError"]
                       ELSE [call EXCEPT !.pc = "check"]]
    /\ UNCHANGED <<dirs, files>>

\* is_new = not original_path.exists()
CreateCheck(p) ==
    /\ proc[p].pc = "check"
    /\ proc' = IF WorkspaceExists(files, proc[p].slug)
               THEN [proc EXCEPT ![p].pc = "done", ![p].is_new = FALSE]
               ELSE [proc EXCEPT ![p].pc = "mkdir", ![p].is_new = TRUE]
    /\ UNCHANGED <<dirs, files>>

\* workspace_path.mkdir(parents=True, exist_ok=True)
CreateMkdir(p) ==
    /\ proc[p].pc = "mkdir"
    /\ dirs' = dirs \cup {proc[p].slug}
    /\ proc' = [proc EXCEPT ![p].pc = "extract"]
    /\ UNCHANGED files

\* editable_text, refs_map = extract_refs_from_text(wikitext)
CreateExtract(p) ==
    /\ proc[p].pc = "extract"
    /\ \E reported \in ReportOrders(ScanTags(proc[p].wikitext)) :
          LET ex == extract_refs_from_text(proc[p].wikitext, reported)
          IN  proc' = [proc EXCEPT ![p].pc = "original", ![p].editable_text = ex[1],
                                   ![p].refs_map = ex[2]]
    /\ UNCHANGED <<dirs, files>>

\* what the write at stage proc[p].pc stores
CreateContent(p) ==
    CASE proc[p].pc = "original" -> proc[p].wikitext
      [] proc[p].pc = "refs" -> proc[p].refs_map
      [] proc[p].pc = "editable" -> proc[p].editable_text
      [] proc[p].pc = "restored" -> proc[p].wikitext
      [] proc[p].pc = "meta" ->
            [NoMeta EXCEPT !.title_original = CreateTitle, !.slug = proc[p].slug,
                           !.created_at = IsoFormat(clock), !.updated_at = IsoFormat(clock),
                           !.refs_count = Cardinality(DOMAIN proc[p].refs_map)]

\* one atomic_write of create_workspace: the file is replaced in one step,
\* or the write raises and the file is as it was
CreateWrite(p) ==
    /\ proc[p].pc \in WriteStages
    /\ \/ /\ files' = atomic_write(files, proc[p].slug, StageFile(proc[p].pc),
                                   CreateContent(p))
          /\ proc' = [proc EXCEPT ![p].pc = IF proc[p].pc = "meta" THEN "done"
                                            ELSE CreateStages[StageIndex(proc[p].pc) + 1]]
       \/ /\ files' = FailedWrite(files, proc[p].slug, StageFile(proc[p].pc))
          /\ proc' = [proc EXCEPT ![p].pc = "raised", ![p].err = "OSError"]
    /\ UNCHANGED dirs

CreateStep(p) ==
    \/ CreateCall(p)
    \/ CreateCheck(p)
    \/ CreateMkdir(p)
    \/ CreateExtract(p)
    \/ CreateWrite(p)

CreateNext ==
    /\ \E p \in Procs : CreateStep(p)
    /\ UNCHANGED <<clock, last, touched, links, tmp, refsVars, webVars>>

SpecCreate == CreateInit /\ [][CreateNext]_vars

(***************************************************************************)
(* slugify_title applied to a title, and again to its result               *)
(***************************************************************************)
MaxTitleLen == 3

TitleAlphabet == {"a", "A", "0", "_", "-", " ", ".", "/", "U+00E9", "U+0639", "U+FF0F"}

SlugTitles == SeqsUpTo(TitleAlphabet, MaxTitleLen)

NoSlugCall == [op |-> "title", title |-> <<>>, slug |-> <<>>, reslug |-> <<>>,
               user_slug |-> <<>>, user_reslug |-> <<>>]

SlugInit ==
    /\ links = NoLinks
    /\ RefsIdle
    /\ WriterIdle
    /\ WebIdle
    /\ dirs = {}
    /\ files = <<>>
    /\ touched = <<>>
    /\ clock = 0
    /\ last \in {[NoSlugCall EXCEPT !.title = t] : t \in SlugTitles}

\* slug = slugify_title(title) by storage.py and by utils.py, and each
\* function applied to its own result
Slugify ==
    /\ last.op = "title"
    /\ last' = [last EXCEPT !.op = "slugify",
                            !.slug = slugify_title(last.title),
                            !.reslug = slugify_title(slugify_title(last.title)),
                            !.user_slug = utils_slugify_title(last.title),
                            !.user_reslug =
                                utils_slugify_title(utils_slugify_title(last.title))]
    /\ UNCHANGED <<dirs, files, clock, touched, frameVars>>

SlugNext == Slugify

SpecSlug == SlugInit /\ [][SlugNext]_vars

(***************************************************************************)
(* safe_workspace_path applied to a candidate slug                         *)
(***************************************************************************)
MaxSlugLen == 2

PathSlugs == SeqsUpTo({"a", "s", ".", "/", "\\"}, MaxSlugLen)
             \cup {<<"c", "o", "n">>, <<"C", "O", "N">>}

\* where the symbolic link root/s may point: to the root, to a child of the
\* root, below a child of the root, and outside the root
LinkTargets == {Root, Append(Root, <<"a">>), Append(Append(Root, <<"a">>), <<"b">>),
                << <<"e", "t", "c">> >>}

LinkConfigs == {NoLinks} \cup {[n \in {<<"s">>} |-> target] : target \in LinkTargets}

NoPathCall == [op |-> "slug", slug |-> <<>>, path |-> NoPath]

PathInit ==
    /\ links \in LinkConfigs
    /\ RefsIdle
    /\ WriterIdle
    /\ WebIdle
    /\ dirs = {}
    /\ files = <<>>
    /\ touched = <<>>
    /\ clock = 0
    /\ last \in {[NoPathCall EXCEPT !.slug = g] : g \in PathSlugs}

SafeWorkspacePath ==
    /\ last.op = "slug"
    /\ last' = [last EXCEPT !.op = "safe_workspace_path",
                            !.path = safe_workspace_path(Root, last.slug)]
    /\ UNCHANGED <<dirs, files, clock, touched, frameVars>>

PathNext == SafeWorkspacePath

SpecPath == PathInit /\ [][PathNext]_vars

(***************************************************************************)
(* The extract/restore pipeline as a state machine                         *)
(***************************************************************************)
DocAlphabet == {"x", "<ref>", "</ref>", "<ref/>", "[ref", "1", "2", "]"}

Docs == SeqsUpTo(DocAlphabet, MaxDocLen)

StorageIdle ==
    /\ links = NoLinks
    /\ WriterIdle
    /\ WebIdle
    /\ dirs = {}
    /\ files = <<>>
    /\ touched = <<>>
    /\ clock = 0
    /\ last = <<>>

RefsInit ==
    /\ StorageIdle
    /\ text \in Docs
    /\ tags = <<>>
    /\ modified = NoText
    /\ refs_map = NoMap
    /\ restored = NoText
    /\ rpc = "input"

\* modified, refs = extract_refs_from_text(text)
Extract ==
    /\ rpc = "input"
    /\ \E reported \in ReportOrders(ScanTags(text)) :
          /\ tags' = reported
          /\ modified' = extract_refs_from_text(text, reported)[1]
          /\ refs_map' = extract_refs_from_text(text, reported)[2]
    /\ rpc' = "extracted"
    /\ UNCHANGED <<text, restored, storageVars>>

\* restored = restore_refs_in_text(modified, refs)
Restore ==
    /\ rpc \in {"extracted", "edited"}
    /\ restored' = restore_refs_in_text(modified, refs_map)
    /\ rpc' = "restored"
    /\ UNCHANGED <<text, tags, modified, refs_map, storageVars>>

RefsNext == Extract \/ Restore

SpecRefs == RefsInit /\ [][RefsNext]_vars

(***************************************************************************)
(* Restoration of an edited text against a stored map                      *)
(***************************************************************************)
TextAlphabet == {"x", "[ref", "1", "2", "]"}

Texts == SeqsUpTo(TextAlphabet, MaxTextLen)

RefKeys == {<<"1">>, <<"2">>}

RefValues == {<<"<ref/>">>, <<"[ref", "2", "]">>}

RefMaps == UNION {[K -> RefValues] : K \in SUBSET RefKeys}

RestoreInit ==
    /\ StorageIdle
    /\ text = NoText
    /\ tags = <<>>
    /\ modified \in Texts
    /\ refs_map \in RefMaps
    /\ restored = NoText
    /\ rpc = "edited"

RestoreNext == Restore

SpecRestore == RestoreInit /\ [][RestoreNext]_vars

(***************************************************************************)
(* main_app: the session, the before_request hook and the routes.  A       *)
(* directory is named by its full path here: Root is WIKI_WORK_ROOT, a     *)
(* user root is a child of it and a workspace a child of a user root.      *)
(***************************************************************************)
\* the names typed into the set_user form (already stripped)
UserNames == {<<>>, <<"b">>, <<"C">>, <<"c", "o", "n">>, <<"U+0639">>}

\* the <slug> part of a requested URL
WebSlugs == {<<"a">>, <<".">>, <<".", ".">>, <<"c", "o", "n">>}

\* the <name> part of a requested URL
WebFileNames == allowed_files \cup {"notes.txt"}

\* the titles and documents posted to /w/new
WebTitles == {<<>>, <<"a">>, <<"c", "o", "n">>, <<"U+0639">>}

WebDocs == {<<>>, <<"<ref/>", "x">>}

\* the steps of create_workspace at which an I/O error is injected: before
\* the first file is written, and before the last one is
WebFailPoints == {"none", "original", "meta"}

\* the names of the directories that can come to exist
WebDirNames == {<<"a">>, <<"b">>, <<"c">>}

WebPaths ==
    {Root} \cup {Append(Root, n) : n \in WebDirNames}
           \cup {Append(Append(Root, n), m) : n, m \in WebDirNames}

\* the URL of a request: the rule of its route and the rule's arguments
NoUrl == [rule |-> "", slug |-> <<>>, name |-> ""]

UrlRule(endpoint) ==
    CASE endpoint = "main.index" -> "/"
      [] endpoint = "main.health" -> "/health"
      [] endpoint = "main.set_user" -> "/set_user"
      [] endpoint = "main.logout" -> "/logout"
      [] endpoint = "workspaces.new_workspace" -> "/w/new"
      [] endpoint = "workspaces.edit_workspace" -> "/w/<slug>/edit"
      [] endpoint = "workspaces.save_workspace" -> "/w/<slug>/save"
      [] endpoint = "workspaces.browse_workspace" -> "/w/<slug>/browse"
      [] endpoint = "workspaces.view_file" -> "/w/<slug>/file/<name>"
      [] endpoint = "workspaces.download_file" -> "/w/<slug>/download/<name>"

\* a response: code is the HTTP status, location the endpoint a redirect
\* points to, next the next argument of that redirect, reads the files whose
\* content the handler read, probes the files whose existence it tested,
\* writes the files it wrote, err the exception that ended it
NoResp == [op |-> "none", user |-> NoUser, url |-> NoUrl, code |-> 0,
           location |-> "", next |-> NoUrl, json |-> FALSE, reads |-> {},
           probes |-> {}, writes |-> {}, listing |-> <<>>, err |-> ""]

\* the request as the handler sees it: request.endpoint, request.path and
\* session.get("username")
Request(endpoint, slug, name) ==
    [NoResp EXCEPT !.op = endpoint, !.user = session,
                   !.url = [rule |-> UrlRule(endpoint), slug |-> slug, name |-> name]]

\* the endpoints that need no user, with the workspace pages among them
ExemptEndpointsWide == {"main.set_user", "static", "workspaces.browse_workspace"}

\* request.endpoint in ["main.set_user", "static"]
ExemptEndpoints == {"main.set_user", "static"}

\* _check_user returns a redirect: the endpoint is not exempt and the
\* session holds no username
check_user(req) == req.op \notin ExemptEndpoints /\ session = NoUser

\* redirect(url_for("main.set_user", next=next_path))
LoginRedirect(req) ==
    [req EXCEPT !.code = 302, !.location = "main.set_user", !.next = req.url]

\* abort(404)
NotFound(req) == [req EXCEPT !.code = 404]

\* an exception no handler catches
ServerError(req, e) == [req EXCEPT !.code = 500, !.err = e]

validate_username(username) ==
    /\ username # <<>>
    /\ ~HasTraversal(username)
    /\ LowerStr(username) \notin reserved_names

\* one directory for every user
UserRootShared(username) == Root

\* (root / username).resolve()
UserRoot(username) == Resolve(Root, username)

\* _get_user_root(): NoPath stands for None
get_user_root ==
    IF session = NoUser THEN NoPath
    ELSE IF ~validate_username(session) THEN NoPath
    ELSE IF ~IsPrefix(Root, UserRoot(session)) THEN NoPath
    ELSE UserRoot(session)

\* resolved_user_root.mkdir(parents=True, exist_ok=True)
MkUserRoot(ds, user_root) ==
    IF user_root = NoPath THEN ds ELSE ds \cup {Root, user_root}

\* the content of a file can be read
Readable(file) == file.st \in {"ok", "nondict"}

\* the variables no route changes
webFrame == <<text, tags, modified, refs_map, restored, rpc, links, proc, tmp,
              clock, touched>>

\* GET /health
Health ==
    LET req == Request("main.health", <<>>, "")
    IN  /\ last' = IF check_user(req) THEN LoginRedirect(req)
                   ELSE [req EXCEPT !.code = 200, !.json = TRUE]
        /\ UNCHANGED <<dirs, files, webFrame, session, owner>>

\* GET or POST /set_user; the request carries no next argument
SetUser ==
    \E method \in {"GET", "POST"}, username \in UserNames :
        LET req == Request("main.set_user", <<>>, "")
            safe_username == utils_slugify_title(username)
        IN  /\ IF method = "GET" \/ username = <<>> \/ safe_username = <<>>
               THEN /\ last' = [req EXCEPT !.code = 200]
                    /\ UNCHANGED session
               ELSE /\ session' = safe_username
                    /\ last' = [req EXCEPT !.code = 302, !.location = "main.index"]
            /\ UNCHANGED <<dirs, files, webFrame, owner>>

\* GET /logout
Logout ==
    LET req == Request("main.logout", <<>>, "")
    IN  /\ IF check_user(req)
           THEN /\ last' = LoginRedirect(req)
                /\ UNCHANGED session
           ELSE /\ session' = NoUser
                /\ last' = [req EXCEPT !.code = 302, !.location = "main.set_user"]
        /\ UNCHANGED <<dirs, files, webFrame, owner>>

\* the directories directly below a directory
Children(ds, dir) == {d \in ds : Len(d) = Len(dir) + 1 /\ Parent(d) = dir}

\* GET /: the dashboard
Index ==
    LET req == Request("main.index", <<>>, "")
        user_root == get_user_root
        ds == MkUserRoot(dirs, user_root)
    IN  /\ IF check_user(req)
           THEN /\ last' = LoginRedirect(req)
                /\ UNCHANGED dirs
           ELSE IF user_root = NoPath
           THEN /\ last' = [req EXCEPT !.code = 200]
                /\ UNCHANGED dirs
           ELSE /\ dirs' = ds
                /\ \E order \in Orders(Children(ds, user_root)) :
                      LET l == list_workspaces(files, order)
                          metas == {<<d, "meta.json">> : d \in Children(ds, user_root)}
                          found == {f \in metas : files[f[1]][f[2]].st # "absent"}
                      IN  last' = IF l.err # ""
                                  THEN [ServerError(req, l.err) EXCEPT !.probes = metas,
                                                                        !.reads = found]
                                  ELSE [req EXCEPT !.code = 200, !.probes = metas,
                                                   !.reads = found,
                                                   !.listing =
                                                      [i \in 1..Len(l.listing) |->
                                                         [l.listing[i] EXCEPT
                                                            !.slug = DirOf(l.listing[i].slug)]]]
        /\ UNCHANGED <<files, webFrame, session, owner>>

\* GET or POST /w/new with the form fields title (already stripped) and
\* wikitext; no file is uploaded.  create_workspace(user_root, title,
\* wikitext) runs below the user root; `fail` is the step at which an I/O
\* error ends it, which the route does not catch.
NewWorkspace ==
    \E method \in {"GET", "POST"}, title \in WebTitles, wikitext \in WebDocs,
       fail \in WebFailPoints :
        LET req == Request("workspaces.new_workspace", <<>>, "")
            user_root == get_user_root
            ds == MkUserRoot(dirs, user_root)
            slug == slugify_title(title)
            workspace_path == safe_workspace_path(user_root, slug)
            form == [req EXCEPT !.code = 200]
        IN  /\ IF check_user(req)
               THEN /\ last' = LoginRedirect(req)
                    /\ UNCHANGED <<dirs, files, owner>>
               ELSE IF user_root = NoPath
               THEN /\ last' = [req EXCEPT !.code = 302, !.location = "main.set_user"]
                    /\ UNCHANGED <<dirs, files, owner>>
               ELSE IF method = "GET" \/ title = <<>> \/ wikitext = <<>>
               THEN /\ last' = form
                    /\ dirs' = ds
                    /\ UNCHANGED <<files, owner>>
               ELSE IF SlugIsEmpty(slug)
               THEN /\ last' = [form EXCEPT !.err = "ValueError: Invalid title"]
                    /\ dirs' = ds
                    /\ UNCHANGED <<files, owner>>
               ELSE IF workspace_path = NoPath
               THEN /\ last' = [form EXCEPT !.err = "ValueError: Invalid workspace path"]
                    /\ dirs' = ds
                    /\ UNCHANGED <<files, owner>>
               ELSE IF WorkspaceExists(files, workspace_path)
               THEN /\ last' = [req EXCEPT !.code = 302,
                                           !.location = "workspaces.edit_workspace",
                                           !.url.slug = slug,
                                           !.probes = {<<workspace_path, "original.wiki">>}]
                    /\ dirs' = ds
                    /\ UNCHANGED <<files, owner>>
               ELSE /\ dirs' = IF Done(fail, "mkdir") THEN ds \cup {workspace_path} ELSE ds
                    /\ owner' = IF Done(fail, "mkdir") /\ workspace_path \notin ds
                                THEN [owner EXCEPT ![workspace_path] = session]
                                ELSE owner
                    /\ \E reported \in ReportOrders(ScanTags(wikitext)) :
                          LET w == CreateWrites(files, workspace_path, title, wikitext,
                                                reported, fail, IsoFormat(clock))
                          IN  files' = IF fail = "none"
                                       THEN [w EXCEPT ![workspace_path]["meta.json"].data.slug
                                                         = slug]
                                       ELSE w
                    /\ LET done == [req EXCEPT
                                      !.url.slug = slug,
                                      !.probes = {<<workspace_path, "original.wiki">>},
                                      !.writes = {<<workspace_path, StageFile(s)>> :
                                                     s \in {t \in WriteStages : Done(fail, t)}}]
                       IN  last' = IF fail = "none"
                                   THEN [done EXCEPT !.code = 302,
                                                     !.location = "workspaces.edit_workspace"]
                                   ELSE ServerError(done, IF fail = "extract" THEN "Exception"
                                                          ELSE "OSError")
            /\ UNCHANGED <<webFrame, session>>

\* the common start of the routes below /w/<slug>: the path of the
\* workspace, NoPath when the route aborts with 404
LookupWorkspace(slug) ==
    LET user_root == get_user_root
        workspace_path == safe_workspace_path(user_root, slug)
    IN  IF user_root = NoPath THEN NoPath
        ELSE IF workspace_path = NoPath THEN NoPath
        ELSE IF workspace_path \notin MkUserRoot(dirs, user_root) THEN NoPath
        ELSE workspace_path

\* GET /w/<slug>/edit
EditWorkspace ==
    \E slug \in WebSlugs :
        LET req == Request("workspaces.edit_workspace", slug, "")
            wp == LookupWorkspace(slug)
            editable == <<wp, "editable.wiki">>
            meta == <<wp, "meta.json">>
            restored_file == <<wp, "restored.wiki">>
            present == {f \in {meta, restored_file} : files[f[1]][f[2]].st # "absent"}
        IN  /\ IF check_user(req)
               THEN /\ last' = LoginRedirect(req)
                    /\ UNCHANGED dirs
               ELSE /\ dirs' = MkUserRoot(dirs, get_user_root)
                    /\ last' =
                         IF wp = NoPath THEN NotFound(req)
                         ELSE IF files[wp]["editable.wiki"].st = "absent"
                         THEN [NotFound(req) EXCEPT !.probes = {editable}]
                         ELSE IF ~Readable(files[wp]["editable.wiki"])
                         THEN [ServerError(req, "OSError") EXCEPT !.probes = {editable}]
                         ELSE IF files[wp]["meta.json"].st \notin {"absent", "ok", "nondict"}
                         THEN [ServerError(req, ReadJsonError(files, wp, "meta.json"))
                                  EXCEPT !.probes = {editable, meta}, !.reads = {editable}]
                         ELSE IF \E f \in present : ~Readable(files[f[1]][f[2]])
                         THEN [ServerError(req, "OSError")
                                  EXCEPT !.probes = {editable, meta, restored_file},
                                         !.reads = {editable} \cup (present \ {restored_file})]
                         ELSE [req EXCEPT !.code = 200,
                                          !.probes = {editable, meta, restored_file},
                                          !.reads = {editable} \cup present]
            /\ UNCHANGED <<files, webFrame, session, owner>>

\* POST /w/<slug>/save: update_workspace(workspace_path, editable_content,
\* status=status) raises TypeError before its body runs (it takes two
\* parameters), and `except Exception` answers with a redirect to the edit
\* page
WebSaveWorkspace ==
    \E slug \in WebSlugs :
        LET req == Request("workspaces.save_workspace", slug, "")
            wp == LookupWorkspace(slug)
        IN  /\ IF check_user(req)
               THEN /\ last' = LoginRedirect(req)
                    /\ UNCHANGED dirs
               ELSE /\ dirs' = MkUserRoot(dirs, get_user_root)
                    /\ last' = IF wp = NoPath THEN NotFound(req)
                               ELSE [req EXCEPT !.code = 302,
                                                !.location = "workspaces.edit_workspace",
                                                !.err = "TypeError"]
            /\ UNCHANGED <<files, webFrame, session, owner>>

\* GET /w/<slug>/browse
BrowseWorkspace ==
    \E slug \in WebSlugs :
        LET req == Request("workspaces.browse_workspace", slug, "")
            wp == LookupWorkspace(slug)
            g == get_workspace_file(files, wp, "meta.json")
            all == {<<wp, n>> : n \in FileNames}
        IN  /\ IF check_user(req)
               THEN /\ last' = LoginRedirect(req)
                    /\ UNCHANGED dirs
               ELSE /\ dirs' = MkUserRoot(dirs, get_user_root)
                    /\ last' = IF wp = NoPath THEN NotFound(req)
                               ELSE IF g.err # ""
                               THEN [ServerError(req, g.err) EXCEPT !.probes = all]
                               ELSE [req EXCEPT !.code = 200, !.probes = all,
                                                !.reads = IF g.found
                                                          THEN {<<wp, "meta.json">>} ELSE {}]
            /\ UNCHANGED <<files, webFrame, session, owner>>

\* the end view_file and download_file share: the content of the file, or
\* 404 when get_workspace_file returns None
ServeFile(req, wp, name) ==
    LET g == get_workspace_file(files, wp, name)
        probed == IF g.probe = NoPath THEN {} ELSE {<<wp, name>>}
    IN  IF wp = NoPath THEN NotFound(req)
        ELSE IF g.err # "" THEN [ServerError(req, g.err) EXCEPT !.probes = probed]
        ELSE IF ~g.found THEN [NotFound(req) EXCEPT !.probes = probed]
        ELSE [req EXCEPT !.code = 200, !.probes = probed, !.reads = {<<wp, name>>}]

\* GET /w/<slug>/file/<name>
ViewFile ==
    \E slug \in WebSlugs, name \in WebFileNames :
        LET req == Request("workspaces.view_file", slug, name)
        IN  /\ IF check_user(req)
               THEN /\ last' = LoginRedirect(req)
                    /\ UNCHANGED dirs
               ELSE /\ dirs' = MkUserRoot(dirs, get_user_root)
                    /\ last' = ServeFile(req, LookupWorkspace(slug), name)
            /\ UNCHANGED <<files, webFrame, session, owner>>

\* GET /w/<slug>/download/<name>
DownloadFile ==
    \E slug \in WebSlugs, name \in WebFileNames :
        LET req == Request("workspaces.download_file", slug, name)
        IN  /\ IF check_user(req)
               THEN /\ last' = LoginRedirect(req)
                    /\ UNCHANGED dirs
               ELSE /\ dirs' = MkUserRoot(dirs, get_user_root)
                    /\ last' = ServeFile(req, LookupWorkspace(slug), name)
            /\ UNCHANGED <<files, webFrame, session, owner>>

WebInit ==
    /\ links = NoLinks
    /\ RefsIdle
    /\ proc = <<>>
    /\ tmp = <<>>
    /\ dirs = {}
    /\ files = [p \in WebPaths |-> EmptyDir]
    /\ owner = [p \in WebPaths |-> NoUser]
    /\ touched = <<>>
    /\ clock = 0
    /\ session = NoUser
    /\ last = NoResp

WebNext ==
    \/ Health
    \/ SetUser
    \/ Logout
    \/ Index
    \/ NewWorkspace
    \/ EditWorkspace
    \/ WebSaveWorkspace
    \/ BrowseWorkspace
    \/ ViewFile
    \/ DownloadFile

SpecWeb == WebInit /\ [][WebNext]_vars

(***************************************************************************)
(* Properties of extraction and restoration                                *)
(***************************************************************************)
\* C1: round trip - restoring the extracted text with the extracted map
\* gives back the document exactly, for every document
C1_RoundTrip ==
    (rpc = "restored" /\ text # NoText) => restored = text

\* the number of reported tags that start before tag number i
RankOf(ts, i) == Cardinality({j \in 1..Len(ts) : ts[j][1] < ts[i][1]})

\* C2: the map has exactly the keys ref1..refN and refK holds the exact
\* substring of the K-th occurrence in order of start offset, whatever the
\* order in which the scanner reported the occurrences
C2_DenseKeysExactSlices ==
    (rpc = "extracted") =>
        /\ DOMAIN refs_map = {IntToStr(k) : k \in 1..Len(tags)}
        /\ \A i \in 1..Len(tags) :
              /\ IntToStr(RankOf(tags, i) + 1) \in DOMAIN refs_map
              /\ refs_map[IntToStr(RankOf(tags, i) + 1)]
                     = SubSeq(text, tags[i][1] + 1, tags[i][2])

C2_Witness ==
    /\ rpc = "extracted"
    /\ Len(tags) >= 2
    /\ tags[1][1] > tags[2][1]
    /\ refs_map[<<"1">>] # refs_map[<<"2">>]

\* a document without any citation-tag occurrence: no self-closing tag and
\* no opening tag that is followed by a closing tag
NoTagOccurrence(t) ==
    /\ \A i \in 1..Len(t) : t[i] # "<ref/>"
    /\ \A i, j \in 1..Len(t) : ~(i < j /\ t[i] = "<ref>" /\ t[j] = "</ref>")

\* C3: a document without tag occurrences (none, or only unterminated ones)
\* is returned unchanged together with an empty map
C3_NoTagsUnchanged ==
    (rpc = "extracted" /\ NoTagOccurrence(text)) =>
        (modified = text /\ DOMAIN refs_map = {})

C3_Witness ==
    /\ rpc = "extracted"
    /\ NoTagOccurrence(text)
    /\ \E i \in 1..Len(text) : text[i] = "<ref>"
    /\ modified = text

\* a placeholder token "[ref" digit+ "]" occupies positions i..e of t
TokenAt(t, i, e) ==
    /\ i >= 1 /\ e <= Len(t) /\ e > i + 1
    /\ t[i] = "[ref" /\ t[e] = "]"
    /\ \A k \in (i + 1)..(e - 1) : t[k] \in Digits

KnownTokenAt(t, m, i, e) == TokenAt(t, i, e) /\ SubSeq(t, i + 1, e - 1) \in DOMAIN m

\* what position i of t contributes to the simultaneous substitution
ImageAt(t, m, i) ==
    IF \E e \in i..Len(t) : KnownTokenAt(t, m, i, e)
    THEN m[SubSeq(t, i + 1, (CHOOSE e \in i..Len(t) : KnownTokenAt(t, m, i, e)) - 1)]
    ELSE IF \E s \in 1..(i - 1) : \E e \in i..Len(t) : KnownTokenAt(t, m, s, e)
         THEN <<>>
    ELSE <<t[i]>>

RECURSIVE ConcatImages(_, _, _)
ConcatImages(t, m, n) ==
    IF n = 0 THEN <<>> ELSE ConcatImages(t, m, n - 1) \o ImageAt(t, m, n)

SimultaneousSubstitution(t, m) == ConcatImages(t, m, Len(t))

\* C4: restoration is the simultaneous substitution - a token with a known
\* key becomes the stored string, a token with an unknown key and all other
\* text stay, and inserted text is not expanded again
C4_SimultaneousSubstitution ==
    (rpc = "restored" /\ text = NoText) =>
        restored = SimultaneousSubstitution(modified, refs_map)

C4_Witness ==
    /\ rpc = "restored" /\ text = NoText
    /\ modified = <<"[ref", "1", "]", "[ref", "2", "]">>
    /\ DOMAIN refs_map = {<<"1">>}
    /\ refs_map[<<"1">>] = <<"[ref", "2", "]">>
    /\ restored = <<"[ref", "2", "]", "[ref", "2", "]">>

(***************************************************************************)
(* Properties of the workspace storage                                     *)
(***************************************************************************)
\* C5: create is idempotent by slug - a create_workspace call for a slug
\* whose workspace exists returns that slug and path with is_new = False
\* and changes none of the five artifacts
C5_CreateIdempotent ==
    [][(last'.op = "create" /\ last'.slug \in DOMAIN files
            /\ Exists(files, last'.slug, "original.wiki"))
        => (/\ last'.err = ""
            /\ last'.is_new = FALSE
            /\ last'.slug = slugify_title(last'.title)
            /\ last'.path = Append(Root, last'.slug)
            /\ files' = files
            /\ dirs' = dirs)]_vars

C5_Witness ==
    /\ last.op = "create" /\ last.err = "" /\ last.is_new = FALSE
    /\ last.slug \in WsSlugs
    /\ files[last.slug]["meta.json"].st = "ok"
    /\ files[last.slug]["meta.json"].data.title_original # last.title
    /\ files[last.slug]["original.wiki"].data # last.arg

\* some but not all of the five artifacts of the directory exist
PartiallyCreated(fs, slug) ==
    /\ \E n \in FileNames : Exists(fs, slug, n)
    /\ \E n \in FileNames : ~Exists(fs, slug, n)

\* C6: a workspace is never partially created - when a create_workspace
\* call stopped after some but not all of its writes, no later create
\* returns is_new = False for it and get_workspace_file and
\* update_workspace do not serve it
C6_NeverPartiallyCreated ==
    \A slug \in WsSlugs :
        (PartiallyCreated(files, slug) /\ last.slug = slug) =>
            /\ ~(last.op = "create" /\ last.err = "" /\ ~last.is_new)
            /\ ~(last.op = "get_file" /\ last.found)
            /\ ~(last.op = "update" /\ last.err = "")

\* C7: create rejects a title with an empty slug with the invalid-title
\* error and a slug that safe_workspace_path rejects with the invalid-path
\* error, and creates or modifies nothing in either case
C7_RejectsWithoutSideEffects ==
    [][(last'.op = "create") =>
          LET slug == slugify_title(last'.title)
          IN  /\ (slug = <<>>) =>
                    (/\ last'.err = "ValueError: Invalid title"
                     /\ files' = files /\ dirs' = dirs)
              /\ (slug # <<>> /\ safe_workspace_path(Root, slug) = NoPath) =>
                    (/\ last'.err = "ValueError: Invalid workspace path"
                     /\ files' = files /\ dirs' = dirs)]_vars

C7_Witness ==
    /\ last.op = "create"
    /\ last.title = <<"c", "o", "n">>
    /\ last.err = "ValueError: Invalid workspace path"
    /\ dirs # {}

C9_UpdateStoresRestored ==
    (last.op = "update" /\ last.err = "") =>
        LET m == files[last.slug]["refs.json"].data
        IN  /\ files[last.slug]["refs.json"].st = "ok"
            /\ files[last.slug]["editable.wiki"] = [st |-> "ok", data |-> last.arg]
            /\ files[last.slug]["restored.wiki"]
                   = [st |-> "ok", data |-> SimultaneousSubstitution(last.arg, m)]
            /\ last.ret = SimultaneousSubstitution(last.arg, m)

C9_Witness ==
    /\ last.op = "update" /\ last.err = ""
    /\ last.arg = <<"[ref", "1", "]">>
    /\ last.ret = <<"<ref/>">>
    /\ files[last.slug]["restored.wiki"].data = <<"<ref/>">>
    /\ files[last.slug]["original.wiki"].data # <<"<ref/>">>

\* all five artifacts of the directory are present and readable
Complete(fs, slug) == \A n \in FileNames : fs[slug][n].st = "ok"

\* C10: a save of a workspace succeeds, and when the form supplies a status
\* the stored metadata status becomes exactly that string
C10_SaveStoresStatus ==
    (last.op = "save" /\ last.slug \in WsSlugs /\ Complete(files, last.slug)) =>
        /\ last.err = ""
        /\ (last.status # NoStatus =>
                files[last.slug]["meta.json"].data.status = last.status)

\* the metadata fields that are fixed at creation
FixedFields(file) ==
    <<file.data.title_original, file.data.slug, file.data.created_at, file.data.refs_count>>

\* C11: once original.wiki of a workspace exists, no create, update, list,
\* read or save step changes original.wiki, refs.json or the metadata fields
\* title_original, slug, created_at and refs_count; whatever else changes in
\* the directory is changed by an update_workspace call on that directory
C11_ImmutableAfterCreate ==
    [][\A slug \in DOMAIN files :
          Exists(files, slug, "original.wiki") =>
              /\ files'[slug]["original.wiki"] = files[slug]["original.wiki"]
              /\ files'[slug]["refs.json"] = files[slug]["refs.json"]
              /\ FixedFields(files'[slug]["meta.json"]) = FixedFields(files[slug]["meta.json"])
              /\ files'[slug] # files[slug] => (last'.op = "update" /\ last'.slug = slug)]_vars

C11_Witness ==
    /\ last.op = "update" /\ last.err = ""
    /\ files[last.slug]["editable.wiki"].data = last.arg
    /\ files[last.slug]["meta.json"].st = "ok"
    /\ files[last.slug]["meta.json"].data.updated_at
           # files[last.slug]["meta.json"].data.created_at
    /\ files[last.slug]["refs.json"].st = "ok"
    /\ files[last.slug]["original.wiki"].data = <<"[ref", "1", "]", "<ref/>">>

\* the directories a list_workspaces result names
ListedSlugs(listing) == {listing[i].slug : i \in 1..Len(listing)}

\* C12: list_workspaces does not raise, skips every directory whose
\* meta.json is missing, unreadable, not JSON or not a metadata object, and
\* returns every directory with well-formed metadata
C12_ListSkipsBadMetadata ==
    (last.op = "list") =>
        /\ last.err = ""
        /\ ListedSlugs(last.listing) = {s \in dirs : files[s]["meta.json"].st = "ok"}

\* C13: a workspace whose last create/update happened later than another
\* one's precedes it in the list
C13_MostRecentFirst ==
    (last.op = "list" /\ last.err = "") =>
        \A i, j \in 1..Len(last.listing) :
            touched[last.listing[i].slug] > touched[last.listing[j].slug] => i < j

\* C14: get_workspace_file returns None for every name outside the five
\* artifact names without building or testing a path, and for one of the
\* five names returns the content of the file when the file is present
C14_AllowListOnly ==
    (last.op = "get_file") =>
        IF last.name \in {"original.wiki", "refs.json", "editable.wiki",
                          "restored.wiki", "meta.json"}
        THEN IF files[last.slug][last.name].st = "absent"
             THEN ~last.found
             ELSE last.found /\ last.ret = files[last.slug][last.name].data
        ELSE ~last.found /\ last.err = "" /\ last.probe = NoPath

C14_Witness ==
    /\ last.op = "get_file"
    /\ last.name = "../meta.json"
    /\ ~last.found
    /\ last.probe = NoPath
    /\ files[last.slug]["meta.json"].st = "ok"

(***************************************************************************)
(* Properties of safe_workspace_path and slugify_title                     *)
(***************************************************************************)
\* C15: a path that safe_workspace_path returns is a direct child of the
\* root - not the root, not a deeper descendant, not outside the root
C15_DirectChildOnly ==
    (last.op = "safe_workspace_path" /\ last.path # NoPath) =>
        (Len(last.path) = Len(Root) + 1 /\ Parent(last.path) = Root)

\* the slug is empty, or made of [a-z0-9_-] without a hyphen at either end
\* and without two hyphens in a row
WellFormedSlug(g) ==
    \/ g = <<>>
    \/ /\ \A i \in 1..Len(g) : g[i] \in LowerChars \cup Digits \cup {"_", "-"}
       /\ g[1] # "-"
       /\ g[Len(g)] # "-"
       /\ \A i \in 1..(Len(g) - 1) : ~(g[i] = "-" /\ g[i + 1] = "-")
       /\ \A i \in 1..Len(g) : g[i] \notin {"/", "\\", "."}

\* C16: for every title the slug, by storage.py and by utils.py, is empty or
\* consists of [a-z0-9_-] with no leading, trailing or doubled hyphen
C16_SlugAlphabet ==
    (last.op = "slugify") => (WellFormedSlug(last.slug) /\ WellFormedSlug(last.user_slug))

C16_Witness ==
    /\ last.op = "slugify"
    /\ last.title = <<"/", "A", ".">>
    /\ last.slug = <<"a">>
    /\ last.user_slug = <<"a">>

\* C17: slugify_title applied to a slug returns that slug
C17_SlugifyIdempotent ==
    (last.op = "slugify") =>
        (last.reslug = last.slug /\ last.user_reslug = last.user_slug)

C17_Witness ==
    /\ last.op = "slugify"
    /\ last.title = <<"U+00E9", " ", "0">>
    /\ last.slug = <<"e", "-", "0">>
    /\ last.reslug = <<"e", "-", "0">>

\* C18: the slug create_workspace derives for a title is the slug that the
\* underscore-keeping slugify_title of utils.py gives, and the directory it
\* makes has that name
C18_UnderscoresPreserved ==
    (last.op = "create" /\ last.err = "" /\ last.is_new) =>
        (last.slug = utils_slugify_title(last.title) /\ last.slug \in dirs)

LastRenameWins(fs, pr, lr) ==
    ((\A p \in Procs : pr[p].pc = "done") /\ pr[1].slug = pr[2].slug) =>
        LET g == pr[1].slug
            m == fs[g]["refs.json"].data
        IN  /\ lr[g]["editable.wiki"] \in Procs
            /\ fs[g]["editable.wiki"]
                   = [st |-> "ok", data |-> ConcText(lr[g]["editable.wiki"])]
            /\ lr[g]["restored.wiki"] \in Procs
            /\ fs[g]["restored.wiki"]
                   = [st |-> "ok",
                      data |-> SimultaneousSubstitution(ConcText(lr[g]["restored.wiki"]), m)]

\* C20: after two concurrent update_workspace calls on one workspace each
\* of editable.wiki and restored.wiki holds the value one call wrote in
\* full, the call whose rename onto that file came last; and a step of a
\* call on one workspace changes no file of another workspace
C20_ConcurrentUpdates ==
    [][/\ LastRenameWins(files', proc', last')
       /\ \A p \in Procs, g \in ConcSlugs :
             (proc'[p] # proc[p] /\ g # proc'[p].slug) => files'[g] = files[g]]_vars

C20_Witness ==
    /\ \A p \in Procs : proc[p].pc = "done"
    /\ proc[1].slug = proc[2].slug
    /\ last[proc[1].slug]["editable.wiki"] = 1
    /\ last[proc[1].slug]["restored.wiki"] = 2
    /\ files[proc[1].slug]["editable.wiki"].data = ConcText(1)
    /\ files[proc[1].slug]["restored.wiki"].data = <<"x", "<ref/>">>


(***************************************************************************)
(* Properties of the session and the routes                                *)
(***************************************************************************)
\* C21: a GET /health from a session without username is answered with
\* status 200 and the JSON health body, not with a redirect
C21_HealthWithoutLogin ==
    (last.op = "main.health" /\ last.user = NoUser) => (last.code = 200 /\ last.json)

WorkspaceRoutes ==
    {"workspaces.edit_workspace", "workspaces.save_workspace",
     "workspaces.browse_workspace", "workspaces.view_file", "workspaces.download_file"}

\* the files a response touched in any way
Touched(resp) == resp.reads \cup resp.probes \cup resp.writes

\* C22: no edit, save, browse, view or download request made with session
\* username u2 reads, tests or modifies a file of a workspace that a request
\* of another username created, whatever slug and file name it carries
C22_UserIsolation ==
    [][last'.op \in WorkspaceRoutes =>
          \A p \in DOMAIN owner :
              (owner[p] # NoUser /\ owner[p] # session) =>
                  /\ files'[p] = files[p]
                  /\ \A f \in Touched(last') : f[1] # p]_vars

\* the second user asks for the slug and file of the first user's complete
\* workspace and gets 404
C22_Witness ==
    /\ last.op = "workspaces.view_file"
    /\ last.user = <<"c">>
    /\ last.url.slug = <<"a">>
    /\ last.url.name = "original.wiki"
    /\ last.code = 404
    /\ owner[Append(Append(Root, <<"b">>), <<"a">>)] = <<"b">>
    /\ files[Append(Append(Root, <<"b">>), <<"a">>)]["original.wiki"].st = "ok"

GatedRoutes == WorkspaceRoutes \cup {"main.index", "workspaces.new_workspace"}

\* C23: while the session holds no username, a request to the dashboard or
\* to a workspace route is answered by a redirect to set_user whose next is
\* the requested path, and it reads, tests and writes nothing
C23_SessionGating ==
    [][(session = NoUser /\ last'.op \in GatedRoutes) =>
          /\ last'.code = 302
          /\ last'.location = "main.set_user"
          /\ last'.next = last'.url
          /\ last'.next.rule = UrlRule(last'.op)
          /\ Touched(last') = {}
          /\ UNCHANGED <<dirs, files, session>>]_vars

\* after a logout (a workspace exists, so a user had been set), a request
\* for a file of that workspace is redirected
C23_Witness ==
    /\ session = NoUser
    /\ last.user = NoUser
    /\ last.op = "workspaces.view_file"
    /\ last.url.slug = <<"a">>
    /\ last.code = 302
    /\ \E p \in DOMAIN owner : owner[p] # NoUser /\ files[p]["meta.json"].st = "ok"

\* the directory a slug names for a user: a directory directly below the
\* user's root
WorkspaceDirOf(username, slug) ==
    LET user_root == IF validate_username(username) THEN UserRoot(username) ELSE NoPath
        workspace_path == safe_workspace_path(user_root, slug)
    IN  IF user_root = NoPath \/ workspace_path = NoPath THEN NoPath
        ELSE IF Parent(workspace_path) # user_root THEN NoPath
        ELSE IF workspace_path \notin dirs THEN NoPath
        ELSE workspace_path

\* C24: for a slug that safe_workspace_path rejects or that names no
\* existing workspace directory, and for a file name outside the allow-list,
\* the edit, save, browse, view and download routes answer 404 and read or
\* write no file
C24_RejectionIsNotFound ==
    (/\ last.op \in WorkspaceRoutes
     /\ last.user # NoUser
     /\ \/ WorkspaceDirOf(last.user, last.url.slug) = NoPath
        \/ /\ last.op \in {"workspaces.view_file", "workspaces.download_file"}
           /\ last.url.name \notin allowed_files)
    => (last.code = 404 /\ last.reads = {} /\ last.writes = {})

(***************************************************************************)
(* Properties of the order and the failures of the storage writes          *)
(***************************************************************************)
\* C25: create_workspace writes meta.json last - in every reachable state,
\* also after a create that failed midway, a workspace whose meta.json
\* exists has the four other artifacts, so every entry list_workspaces
\* returns is a complete workspace
C25_MetaWrittenLast ==
    /\ \A slug \in DOMAIN files :
          Exists(files, slug, "meta.json") => \A n \in FileNames : Exists(files, slug, n)
    /\ last.op = "list" =>
          \A i \in 1..Len(last.listing) : Complete(files, last.listing[i].slug)

\* a created workspace is listed
C25_Witness ==
    /\ last.op = "list"
    /\ Len(last.listing) = 1
    /\ Exists(files, last.listing[1].slug, "meta.json")

\* C26: create_workspace extracts before it touches the disk - when the
\* extraction fails, the storage root is exactly as it was and no workspace
\* directory was created
C26_ExtractBeforeDisk ==
    [][(last'.op = "create" /\ last'.err = "Exception") =>
          (dirs' = dirs /\ files' = files)]_vars

\* C29: after a successful create_workspace or update_workspace on a
\* workspace, restored.wiki equals restore_refs_in_text(editable.wiki,
\* refs.json)
C29_RestoredIsDerived ==
    (/\ last.op \in {"create", "update"}
     /\ last.err = ""
     /\ last.op = "create" => last.is_new
     /\ last.slug \in DOMAIN files
     /\ Complete(files, last.slug))
    => files[last.slug]["restored.wiki"].data =
          restore_refs_in_text(files[last.slug]["editable.wiki"].data,
                               files[last.slug]["refs.json"].data)

\* C30 as stated: an update_workspace call that fails at a write leaves
\* editable.wiki, restored.wiki and meta.json at their contents before the
\* call
C30_UpdateAllOrNothing ==
    [][(last'.op = "update" /\ last'.err = "OSError") => files' = files]_vars

\* C30 as amended: an update_workspace call that fails at a write leaves
\* the file of that write and the files after it at their contents before
\* the call; the files written before it hold their new contents
C30_UpdateFailsAtOneWrite ==
    [][(last'.op = "update" /\ last'.err = "OSError") =>
          LET slug == last'.slug
              old == files[slug]
              new == files'[slug]
              restored_content ==
                  restore_refs_in_text(last'.arg, old["refs.json"].data)
          IN  /\ \A g \in DOMAIN files \ {slug} : files'[g] = files[g]
              /\ new["original.wiki"] = old["original.wiki"]
              /\ new["refs.json"] = old["refs.json"]
              /\ new["meta.json"] = old["meta.json"]
              /\ \/ /\ new["editable.wiki"] = old["editable.wiki"]
                    /\ new["restored.wiki"] = old["restored.wiki"]
                 \/ /\ new["editable.wiki"] = [st |-> "ok", data |-> last'.arg]
                    /\ new["restored.wiki"] = old["restored.wiki"]
                 \/ /\ new["editable.wiki"] = [st |-> "ok", data |-> last'.arg]
                    /\ new["restored.wiki"] = [st |-> "ok", data |-> restored_content]
                    /\ Exists(files, slug, "meta.json")]_vars

\* an update failed while it wrote restored.wiki: editable.wiki holds the
\* new text, restored.wiki the text derived from the one before
C30_Witness ==
    /\ last.op = "update"
    /\ last.err = "OSError"
    /\ Complete(files, last.slug)
    /\ files[last.slug]["editable.wiki"].data = last.arg
    /\ files[last.slug]["restored.wiki"].data #
          restore_refs_in_text(last.arg, files[last.slug]["refs.json"].data)

(***************************************************************************)
(* Properties of the replacement order of the extraction                   *)
(***************************************************************************)
\* what position i of the document contributes when every span is replaced
\* by its placeholder at once: the placeholder at the first position of a
\* span, nothing at its other positions, the character itself outside
SpanImageAt(t, ts, i) ==
    IF \E k \in 1..Len(ts) : ts[k][1] + 1 = i
    THEN Placeholder(RankOf(ts, CHOOSE k \in 1..Len(ts) : ts[k][1] + 1 = i) + 1)
    ELSE IF \E k \in 1..Len(ts) : ts[k][1] + 1 < i /\ i <= ts[k][2]
         THEN <<>>
    ELSE <<t[i]>>

RECURSIVE ConcatSpanImages(_, _, _)
ConcatSpanImages(t, ts, n) ==
    IF n = 0 THEN <<>> ELSE ConcatSpanImages(t, ts, n - 1) \o SpanImageAt(t, ts, n)

\* the positions of t at which a token [ref<digits>] starts
TokenStarts(t) ==
    {i \in 1..Len(t) : t[i] = "[ref" /\ \E e \in (i + 2)..Len(t) : TokenAt(t, i, e)}

\* the digits of the token that starts at position i of t
KeyAt(t, i) ==
    SubSeq(t, i + 1, (CHOOSE e \in (i + 2)..Len(t) : TokenAt(t, i, e)) - 1)

NoLiteralToken(t) == TokenStarts(t) = {}

\* C28: the editable text equals the document with every span replaced by
\* its placeholder at once (text outside the spans unchanged), and when the
\* document holds no literal [refN] token each placeholder [ref1]..[refN]
\* occurs exactly once, in increasing order of N: the tokens of the editable
\* text are N in number and the K-th of them is [refK]
C28_ReverseIsSimultaneous ==
    (rpc = "extracted") =>
        /\ modified = ConcatSpanImages(text, tags, Len(text))
        /\ NoLiteralToken(text) =>
              LET starts == TokenStarts(modified)
              IN  /\ Cardinality(starts) = Len(tags)
                  /\ \A i \in starts :
                        KeyAt(modified, i) =
                            IntToStr(Cardinality({j \in starts : j <= i}))

\* two adjacent tags with the same content, reported in reverse order
C28_Witness ==
    /\ rpc = "extracted"
    /\ Len(tags) = 2
    /\ tags[1][1] = tags[2][2]
    /\ refs_map[<<"1">>] = refs_map[<<"2">>]
    /\ NoLiteralToken(text)
    /\ modified = Placeholder(1) \o Placeholder(2)

(***************************************************************************)
(* Properties of concurrent creation                                       *)
(***************************************************************************)
\* the five artifacts are those a single create_workspace call of p writes
DerivedFrom(p) ==
    LET slug == slugify_title(CreateTitle)
    IN  files[slug] = CreateWrites(files, slug, CreateTitle, CreateDoc(p),
                                   ScanTags(CreateDoc(p)), "none", IsoFormat(clock))[slug]

\* C27: when two create_workspace calls for one slug with different
\* documents have both returned, at most one of them returned is_new = True
\* and all five artifacts derive from one and the same document
C27_CreateNeverOverwrites ==
    (\A p \in Procs : proc[p].pc = "done") =>
        /\ Cardinality({p \in Procs : proc[p].is_new}) <= 1
        /\ \E p \in Procs : DerivedFrom(p)
=============================================================================
